---- MODULE Spec2Model ----
(***************************************************************************)
(* Bump propagation of cargo-workspace-version-tools: the instruction      *)
(* resolver (BumpInstruction::from_str), the cross-channel reconciler      *)
(* (compute_prerelease_bump_instruction) and the tree builder              *)
(* (BumpTree::new / new_node / derive_child_node).                         *)
(*                                                                         *)
(* An Option<T> is a sequence: << >> is None and <<x>> is Some(x).         *)
(* A Version is a record [major, minor, patch, pre]; pre is "" or a label. *)
(***************************************************************************)
EXTENDS Integers, Sequences, FiniteSets, TLC

VARIABLES
    stable_workspace,      \* [packages: name -> Option<Version>, dependents: name -> set of names]
    prerelease_workspace,  \* the same, for the prerelease branch
    release_channel,       \* "Stable" or "Prerelease"
    pc,                    \* position of the bump command
    resolved,              \* results of from_str, in the order the texts were given
    root_instructions,     \* the Vec<BumpInstruction> handed to BumpTree::new
    todo_roots,            \* root instructions BumpTree::new has not mapped yet
    stack,                 \* the new_node calls in progress, innermost last
    nodes,                 \* the BumpNodes created so far, by id (1..Len(nodes))
    new_roots,             \* the root nodes collected by BumpTree::new (local root_nodes)
    root_nodes,            \* tree.root_nodes
    highest_stable,        \* name -> Option<node id>
    highest_prerelease,    \* name -> Option<node id>
    call,                  \* the last library call and what it returned
    bump_command           \* the running command: its arguments and its set_version calls

vars == << stable_workspace, prerelease_workspace, release_channel, pc, resolved,
           root_instructions, todo_roots, stack, nodes, new_roots, root_nodes,
           highest_stable, highest_prerelease, call, bump_command >>

(***************************************************************************)
(* Bounds of the model.                                                    *)
(***************************************************************************)
MaxRoots == 2      \* bump instructions given to one run of the command
MaxVer == 2        \* largest major and minor drawn for the single-package inputs
MaxPatch == 1      \* largest patch drawn for the single-package inputs
MaxDepth == 4      \* deepest recursion of new_node the model follows

Names == {"a", "b", "c"}

None == << >>
Some(x) == << x >>
IsSome(o) == o # << >>
Unwrap(o) == o[1]

(***************************************************************************)
(* Versions and their order (semver::Version).                             *)
(***************************************************************************)
V(ma, mi, pa, pr) == [major |-> ma, minor |-> mi, patch |-> pa, pre |-> pr]

\* Precedence of the prerelease part: a version without one is the greatest.
PreRank(pr) == IF pr = "" THEN 1 ELSE 0

VLt(x, y) ==
    \/ x.major < y.major
    \/ x.major = y.major /\ x.minor < y.minor
    \/ x.major = y.major /\ x.minor = y.minor /\ x.patch < y.patch
    \/ x.major = y.major /\ x.minor = y.minor /\ x.patch = y.patch
         /\ PreRank(x.pre) < PreRank(y.pre)

VLe(x, y) == x = y \/ VLt(x, y)

VMax(x, y) == IF VLt(x, y) THEN y ELSE x

(***************************************************************************)
(* BumpType, ordered Patch < Minor < Major, and its parser.                *)
(***************************************************************************)
BumpTypes == {"Major", "Minor", "Patch"}

Rank(t) == CASE t = "Patch" -> 1 [] t = "Minor" -> 2 [] t = "Major" -> 3

ToLower(tok) ==
    CASE tok = "Major" -> "major"
      [] tok = "MINOR" -> "minor"
      [] OTHER -> tok

\* BumpType::from_str: case-insensitive; None stands for Err.
BumpType_from_str(tok) ==
    CASE ToLower(tok) = "major" -> Some("Major")
      [] ToLower(tok) = "minor" -> Some("Minor")
      [] ToLower(tok) = "patch" -> Some("Patch")
      [] OTHER -> None

(***************************************************************************)
(* Version arithmetic (VersionExtension::bump, ::with_prerelease).         *)
(***************************************************************************)
bump(v, bump_type, end_user_initiated) ==
    CASE bump_type = "Major" ->
           IF v.major > 0 \/ end_user_initiated
           THEN [v EXCEPT !.major = v.major + 1, !.minor = 0, !.patch = 0]
           ELSE [v EXCEPT !.minor = v.minor + 1, !.patch = 0]
      [] bump_type = "Minor" -> [v EXCEPT !.minor = v.minor + 1, !.patch = 0]
      [] bump_type = "Patch" -> [v EXCEPT !.patch = v.patch + 1]

with_prerelease(v) == [v EXCEPT !.pre = "alpha"]

(***************************************************************************)
(* Packages and instructions.  A package is named by its workspace's       *)
(* branch and its name (Rc<RefCell<Package>>); its version is read from    *)
(* the workspace each time.                                                *)
(***************************************************************************)
Workspace(branch) ==
    IF branch = "stable" THEN stable_workspace ELSE prerelease_workspace

\* Workspace.packages.get(name)
get(workspace, name) ==
    IF IsSome(workspace.packages[name]) THEN Some(name) ELSE None

\* Package::version
version(branch, name) == Unwrap(Workspace(branch).packages[name])

\* Package::direct_workspace_dependents
direct_workspace_dependents(branch, name) == Workspace(branch).dependents[name]

BumpInstruction(branch, name, next_version) ==
    [package |-> name, branch |-> branch, next_version |-> next_version]

\* A variant that never applies the 0.x rule.
bump_type_no_zero_rule(i) ==
    LET cur_version == version(i.branch, i.package) IN
    IF i.next_version.major > cur_version.major THEN "Major"
    ELSE IF i.next_version.minor > cur_version.minor THEN "Minor"
    ELSE "Patch"

\* BumpInstruction::bump_type
bump_type(i) ==
    LET cur_version == version(i.branch, i.package) IN
    IF \/ i.next_version.major > cur_version.major
       \/ /\ i.next_version.major = 0
          /\ cur_version.major = 0
          /\ i.next_version.minor > cur_version.minor
    THEN "Major"
    ELSE IF i.next_version.minor > cur_version.minor THEN "Minor"
    ELSE "Patch"

Ok(o) == [kind |-> IF IsSome(o) THEN "Some" ELSE "None", err |-> "", instr |-> o]
Err(e) == [kind |-> "Err", err |-> e, instr |-> None]

\* impl PartialEq for BumpInstruction: the package's name and branch and the
\* magnitude of the bump.
BumpInstruction_eq(self, other) ==
    /\ self.package = other.package
    /\ self.branch = other.branch
    /\ bump_type(self) = bump_type(other)

\* PartialEq of two Option<BumpInstruction>.
Option_eq(self, other) ==
    \/ ~IsSome(self) /\ ~IsSome(other)
    \/ IsSome(self) /\ IsSome(other) /\ BumpInstruction_eq(Unwrap(self), Unwrap(other))

\* impl PartialEq for BumpNode: the two instructions; the children are not
\* compared.
BumpNode_eq(self, other) ==
    Option_eq(self.stable, other.stable) /\ Option_eq(self.prerelease, other.prerelease)

\* The Prerelease arm of from_str: the request is skipped when the
\* prerelease version is already ahead of stable at the requested tier.
already_ahead(semver_part, cur_prerelease_version, cur_stable_version) ==
    CASE semver_part = "Major" ->
           cur_prerelease_version.major > cur_stable_version.major
      [] semver_part = "Minor" ->
           \/ cur_prerelease_version.major > cur_stable_version.major
           \/ cur_prerelease_version.minor > cur_stable_version.minor
      [] semver_part = "Patch" ->
           \/ cur_prerelease_version.major > cur_stable_version.major
           \/ cur_prerelease_version.minor > cur_stable_version.minor
           \/ cur_prerelease_version.patch > cur_stable_version.patch

\* from_str, the package is not in the stable workspace.
missing_stable_always_err(channel) == Err("NotFound")

\* A variant with the two arms exchanged.
missing_stable_swapped(channel) ==
    IF channel = "Stable" THEN Ok(None) ELSE Err("NotFound")

missing_stable(channel) ==
    IF channel = "Stable" THEN Err("NotFound") ELSE Ok(None)

\* from_str, the Stable arm: "Stable is easy, just bump the version."
stable_arm_derived(name, semver_part, cur_stable_version) ==
    Ok(Some(BumpInstruction("stable", name,
                            bump(cur_stable_version, semver_part, FALSE))))

stable_arm(name, semver_part, cur_stable_version) ==
    Ok(Some(BumpInstruction("stable", name,
                            bump(cur_stable_version, semver_part, TRUE))))

\* from_str, the Prerelease arm with both packages present.
prerelease_arm_from_prerelease(name, semver_part, cur_prerelease_version, cur_stable_version) ==
    IF already_ahead(semver_part, cur_prerelease_version, cur_stable_version)
    THEN Ok(None)
    ELSE Ok(Some(BumpInstruction("prerelease", name,
             with_prerelease(bump(cur_prerelease_version, semver_part, TRUE)))))

prerelease_arm(name, semver_part, cur_prerelease_version, cur_stable_version) ==
    IF already_ahead(semver_part, cur_prerelease_version, cur_stable_version)
    THEN Ok(None)
    ELSE Ok(Some(BumpInstruction("prerelease", name,
             with_prerelease(bump(cur_stable_version, semver_part, TRUE)))))

\* BumpInstruction::from_str.  s is the text split on its first space:
\* [name, tok], tok the Option of the second part.
from_str(s, channel) ==
    LET semver_part ==
            IF IsSome(s.tok) THEN BumpType_from_str(Unwrap(s.tok)) ELSE None
        stable_package == get(stable_workspace, s.name)
        prerelease_package == get(prerelease_workspace, s.name)
    IN
    IF ~IsSome(semver_part) THEN Err("InvalidBumpInstruction")
    ELSE IF ~IsSome(stable_package) THEN missing_stable(channel)
    ELSE IF channel = "Stable"
    THEN stable_arm(s.name, Unwrap(semver_part), version("stable", s.name))
    ELSE IF ~IsSome(prerelease_package) THEN Err("NotFound")
    ELSE prerelease_arm(s.name, Unwrap(semver_part),
                        version("prerelease", s.name), version("stable", s.name))

(***************************************************************************)
(* The cross-channel reconciler.                                           *)
(***************************************************************************)
\* A variant that bumps the current stable version, not the new one.
candidate1_from_current(stable_bump_instruction) ==
    IF ~IsSome(stable_bump_instruction) THEN None
    ELSE LET i == Unwrap(stable_bump_instruction) IN
         IF bump_type(i) \in {"Major", "Minor"}
         THEN Some(with_prerelease(bump(version(i.branch, i.package), "Major", FALSE)))
         ELSE Some(with_prerelease(bump(version(i.branch, i.package), "Patch", FALSE)))

\* A variant that leapfrogs by a major step on a Major stable bump only.
candidate1_major_only(stable_bump_instruction) ==
    IF ~IsSome(stable_bump_instruction) THEN None
    ELSE LET i == Unwrap(stable_bump_instruction) IN
         IF bump_type(i) = "Major"
         THEN Some(with_prerelease(bump(i.next_version, "Major", FALSE)))
         ELSE Some(with_prerelease(bump(i.next_version, "Patch", FALSE)))

\* candidate1: from the stable instruction.
candidate1(stable_bump_instruction) ==
    IF ~IsSome(stable_bump_instruction) THEN None
    ELSE LET i == Unwrap(stable_bump_instruction) IN
         IF bump_type(i) \in {"Major", "Minor"}
         THEN Some(with_prerelease(bump(i.next_version, "Major", FALSE)))
         ELSE Some(with_prerelease(bump(i.next_version, "Patch", FALSE)))

\* A variant that bumps the parent's new version, as candidate1 bumps the
\* stable instruction's.
candidate2_from_parent(prerelease_parent_bump_instruction, cur_stable_version) ==
    IF ~IsSome(prerelease_parent_bump_instruction) THEN None
    ELSE LET i == Unwrap(prerelease_parent_bump_instruction) IN
         IF bump_type(i) = "Major"
         THEN Some(with_prerelease(bump(i.next_version, "Major", FALSE)))
         ELSE Some(with_prerelease(bump(i.next_version, "Patch", FALSE)))

\* candidate2: from the prerelease parent's instruction.
candidate2(prerelease_parent_bump_instruction, cur_stable_version) ==
    IF ~IsSome(prerelease_parent_bump_instruction) THEN None
    ELSE LET i == Unwrap(prerelease_parent_bump_instruction) IN
         IF bump_type(i) = "Major"
         THEN Some(with_prerelease(bump(cur_stable_version, "Major", FALSE)))
         ELSE Some(with_prerelease(bump(cur_stable_version, "Patch", FALSE)))

highest_candidate(c1, c2) ==
    CASE IsSome(c1) /\ IsSome(c2) -> Some(VMax(Unwrap(c1), Unwrap(c2)))
      [] IsSome(c1) /\ ~IsSome(c2) -> c1
      [] ~IsSome(c1) /\ IsSome(c2) -> c2
      [] OTHER -> None

\* A variant that lets a candidate equal to the current version through.
guard_not_strict(name, cur_prerelease_version, candidate) ==
    IF ~IsSome(candidate) THEN None
    ELSE IF VLt(Unwrap(candidate), cur_prerelease_version) THEN None
    ELSE Some(BumpInstruction("prerelease", name, Unwrap(candidate)))

\* A variant without the closing guard: the candidate is always returned.
guard_absent(name, cur_prerelease_version, candidate) ==
    IF ~IsSome(candidate) THEN None
    ELSE Some(BumpInstruction("prerelease", name, Unwrap(candidate)))

\* The closing guard: no instruction when the current prerelease version
\* is not below the highest candidate.
guard(name, cur_prerelease_version, candidate) ==
    IF ~IsSome(candidate) THEN None
    ELSE IF VLe(Unwrap(candidate), cur_prerelease_version) THEN None
    ELSE Some(BumpInstruction("prerelease", name, Unwrap(candidate)))

\* compute_prerelease_bump_instruction.  The two packages are Options of
\* the name looked up in each workspace.
\* A variant that reconciles a package without a stable counterpart against
\* its own prerelease version.
compute_without_stable_check(prerelease_package, stable_package, stable_bump_instruction, prerelease_parent_bump_instruction) ==
    IF ~IsSome(prerelease_package) THEN None
    ELSE
      LET cur_prerelease_version == version("prerelease", Unwrap(prerelease_package))
          cur_stable_version == IF IsSome(stable_package)
                                THEN version("stable", Unwrap(stable_package))
                                ELSE cur_prerelease_version
      IN guard(Unwrap(prerelease_package), cur_prerelease_version,
               highest_candidate(
                   candidate1(stable_bump_instruction),
                   candidate2(prerelease_parent_bump_instruction, cur_stable_version)))

compute_prerelease_bump_instruction(prerelease_package, stable_package, stable_bump_instruction, prerelease_parent_bump_instruction) ==
    IF ~IsSome(prerelease_package) THEN None
    ELSE IF ~IsSome(stable_package) THEN None
    ELSE
      LET cur_prerelease_version == version("prerelease", Unwrap(prerelease_package))
          cur_stable_version == version("stable", Unwrap(stable_package))
      IN guard(Unwrap(prerelease_package), cur_prerelease_version,
               highest_candidate(
                   candidate1(stable_bump_instruction),
                   candidate2(prerelease_parent_bump_instruction, cur_stable_version)))

(***************************************************************************)
(* The tree builder.  A BumpNode is [stable, prerelease, children]; a      *)
(* frame of the stack is a new_node call whose children are being derived. *)
(***************************************************************************)
BumpNode(stable, prerelease, children) ==
    [stable |-> stable, prerelease |-> prerelease, children |-> children]

Frame(stable, prerelease, unique_children) ==
    [stable |-> stable, prerelease |-> prerelease,
     unique_children |-> unique_children, children |-> << >>]

\* A variant that counts a package among its own dependents.
unique_children_reflexive(stable_bump_instruction, prerelease_bump_instruction) ==
    UNION { direct_workspace_dependents(i.branch, i.package) \cup {i.package} :
              i \in { Unwrap(o) : o \in { x \in { stable_bump_instruction,
                                                  prerelease_bump_instruction } :
                                          IsSome(x) } } }

\* A variant that follows the dependents of the stable package alone when
\* both instructions are present.
unique_children_stable_side(stable_bump_instruction, prerelease_bump_instruction) ==
    IF IsSome(stable_bump_instruction)
    THEN direct_workspace_dependents("stable", Unwrap(stable_bump_instruction).package)
    ELSE IF IsSome(prerelease_bump_instruction)
    THEN direct_workspace_dependents("prerelease",
                                     Unwrap(prerelease_bump_instruction).package)
    ELSE {}

\* new_node, "Derive children": the names of the direct dependents of the
\* package of each instruction present.
unique_children(stable_bump_instruction, prerelease_bump_instruction) ==
    UNION { direct_workspace_dependents(i.branch, i.package) :
              i \in { Unwrap(o) : o \in { x \in { stable_bump_instruction,
                                                  prerelease_bump_instruction } :
                                          IsSome(x) } } }

\* A variant that bumps the child as if the user had asked for it.
child_stable_instruction_user(stable_parent_bump_instruction, stable_child_package) ==
    IF IsSome(stable_child_package) /\ IsSome(stable_parent_bump_instruction)
    THEN LET cur_version == version("stable", Unwrap(stable_child_package)) IN
         IF bump_type(Unwrap(stable_parent_bump_instruction)) = "Major"
         THEN Some(BumpInstruction("stable", Unwrap(stable_child_package),
                                   bump(cur_version, "Major", TRUE)))
         ELSE Some(BumpInstruction("stable", Unwrap(stable_child_package),
                                   bump(cur_version, "Patch", TRUE)))
    ELSE None

\* A variant in which only a Major parent bumps its dependents.
child_stable_instruction_major_only(stable_parent_bump_instruction, stable_child_package) ==
    IF /\ IsSome(stable_child_package)
       /\ IsSome(stable_parent_bump_instruction)
       /\ bump_type(Unwrap(stable_parent_bump_instruction)) = "Major"
    THEN Some(BumpInstruction("stable", Unwrap(stable_child_package),
                  bump(version("stable", Unwrap(stable_child_package)), "Major", FALSE)))
    ELSE None

\* derive_child_node, the child's stable instruction.
child_stable_instruction(stable_parent_bump_instruction, stable_child_package) ==
    IF IsSome(stable_child_package) /\ IsSome(stable_parent_bump_instruction)
    THEN LET cur_version == version("stable", Unwrap(stable_child_package)) IN
         IF bump_type(Unwrap(stable_parent_bump_instruction)) = "Major"
         THEN Some(BumpInstruction("stable", Unwrap(stable_child_package),
                                   bump(cur_version, "Major", FALSE)))
         ELSE Some(BumpInstruction("stable", Unwrap(stable_child_package),
                                   bump(cur_version, "Patch", FALSE)))
    ELSE None

\* derive_child_node: the two instructions new_node is then called with.
derive_child_node(stable_parent_bump_instruction, prerelease_parent_bump_instruction, stable_child_package, prerelease_child_package) ==
    LET stable_bump_instruction ==
            child_stable_instruction(stable_parent_bump_instruction, stable_child_package)
    IN [stable |-> stable_bump_instruction,
        prerelease |-> compute_prerelease_bump_instruction(
                           prerelease_child_package, stable_child_package,
                           stable_bump_instruction,
                           prerelease_parent_bump_instruction)]

\* A variant that hands the root instruction to new_node on both sides.
root_node_instructions_both_sides(i, channel) ==
    IF channel = "Prerelease"
    THEN [stable |-> Some(i), prerelease |-> Some(i)]
    ELSE [stable |-> Some(i),
          prerelease |-> compute_prerelease_bump_instruction(
                             get(prerelease_workspace, i.package),
                             get(stable_workspace, i.package),
                             Some(i), None)]

\* BumpTree::new, the closure mapped over root_instructions.
root_node_instructions(i, channel) ==
    IF channel = "Prerelease"
    THEN [stable |-> None, prerelease |-> Some(i)]
    ELSE [stable |-> Some(i),
          prerelease |-> compute_prerelease_bump_instruction(
                             get(prerelease_workspace, i.package),
                             get(stable_workspace, i.package),
                             Some(i), None)]

\* A variant that keeps the first node recorded for a package.
entry_after_first_wins(entry, recorded, i, id) ==
    IF ~IsSome(entry) THEN Some(id) ELSE entry

\* A variant in which a later node of the same magnitude takes the entry.
entry_after_last_wins_ties(entry, recorded, i, id) ==
    IF ~IsSome(entry) THEN Some(id)
    ELSE IF ~IsSome(recorded) THEN Some(id)
    ELSE IF Rank(bump_type(Unwrap(recorded))) <= Rank(bump_type(i)) THEN Some(id)
    ELSE entry

\* new_node, "Update keeping track of the highest bumps": one map's entry for
\* the package of instruction i after the node with that instruction got id.
\* recorded is what the entry's node holds on the map's channel (an Option).
entry_after(entry, recorded, i, id) ==
    IF ~IsSome(entry) THEN Some(id)
    ELSE IF ~IsSome(recorded) THEN Some(id)
    ELSE IF Rank(bump_type(Unwrap(recorded))) < Rank(bump_type(i)) THEN Some(id)
    ELSE entry

register(highest, side, instruction, id) ==
    IF ~IsSome(instruction) THEN highest
    ELSE LET i == Unwrap(instruction)
             e == highest[i.package]
             recorded == IF IsSome(e) THEN nodes[Unwrap(e)][side] ELSE None
         IN [highest EXCEPT ![i.package] = entry_after(e, recorded, i, id)]

(***************************************************************************)
(* The inputs: two workspaces over Names and a release channel.            *)
(***************************************************************************)
Channels == {"Stable", "Prerelease"}

NoCall == [fn |-> "none"]

\* commands::bump is not running.
NoCommand == [package_changes |-> << >>]

\* The dependency edges a workspace may hold, as (package, dependent).
\* Every subset is acyclic.
Edges == { <<"a", "b">>, <<"a", "c">>, <<"b", "c">> }

\* Package.direct_workspace_dependents of each member, for a set of edges;
\* only members of the workspace are related (Package::new filters on them).
Dependents(edges, packages) ==
    [n \in Names |->
        { d \in Names : /\ <<n, d>> \in edges
                        /\ IsSome(packages[n])
                        /\ IsSome(packages[d]) }]

MakeWorkspace(packages, edges) ==
    [packages |-> packages, dependents |-> Dependents(edges, packages)]

\* (stable version, prerelease version) of one package.
Equal10 == << Some(V(1, 0, 0, "")), Some(V(1, 0, 0, "")) >>
Equal01 == << Some(V(0, 1, 0, "")), Some(V(0, 1, 0, "")) >>
Ahead20 == << Some(V(1, 0, 0, "")), Some(V(2, 0, 0, "alpha")) >>
StableOnly == << Some(V(1, 0, 0, "")), None >>
PrereleaseOnly == << None, Some(V(1, 0, 0, "")) >>

VersionProfiles == { Equal10, Equal01, Ahead20 }
PresenceProfiles == { Equal10, StableOnly, PrereleaseOnly }

Graphs == { {}, { <<"a", "b">>, <<"b", "c">> }, { <<"a", "c">>, <<"b", "c">> }, Edges }

\* Workspaces whose packages all exist on both branches, with the full graph.
VersionInputs ==
    { << MakeWorkspace([n \in Names |-> f[n][1]], Edges),
         MakeWorkspace([n \in Names |-> f[n][2]], Edges) >> :
      f \in [Names -> VersionProfiles] }

\* Workspaces where a package may exist on one branch only.
PresenceInputs ==
    { << MakeWorkspace([n \in Names |-> f[n][1]], Edges),
         MakeWorkspace([n \in Names |-> f[n][2]], Edges) >> :
      f \in [Names -> PresenceProfiles] }

\* Workspaces whose two branches may hold different dependency graphs.
GraphInputs ==
    { << MakeWorkspace([n \in Names |-> Equal10[1]], gs),
         MakeWorkspace([n \in Names |-> Equal10[2]], gp) >> :
      gs \in Graphs, gp \in Graphs }

\* Graphs over a and b in which the two branches, together or each alone,
\* may hold a cycle.
CycleGraphs ==
    { { <<"a", "b">> }, { <<"b", "a">> }, { <<"a", "b">>, <<"b", "a">> } }

\* Workspaces with such graphs; b may already be ahead on the prerelease branch.
CyclicInputs ==
    { << MakeWorkspace([n \in Names |-> IF n = "b" THEN f[1] ELSE Equal10[1]], gs),
         MakeWorkspace([n \in Names |-> IF n = "b" THEN f[2] ELSE Equal10[2]], gp) >> :
      f \in {Equal10, Ahead20}, gs \in CycleGraphs, gp \in CycleGraphs }

Inputs == VersionInputs \cup PresenceInputs \cup GraphInputs \cup CyclicInputs

\* The texts of the bump instructions: "<name> <token>", or a name alone.
Text(name, tok) == [name |-> name, tok |-> tok]

Tokens == {"major", "minor", "patch"}

\* The command is given texts that name the packages with dependents.
RootNames == {"a", "b"}

Texts ==
    { Text(n, Some(t)) : n \in RootNames, t \in Tokens }
        \cup { Text("a", None), Text("a", Some("bogus")) }

Init ==
    /\ \E w \in Inputs : stable_workspace = w[1] /\ prerelease_workspace = w[2]
    /\ release_channel \in Channels
    /\ pc = "resolve"
    /\ resolved = << >>
    /\ root_instructions = << >>
    /\ todo_roots = << >>
    /\ stack = << >>
    /\ nodes = << >>
    /\ new_roots = << >>
    /\ root_nodes = << >>
    /\ highest_stable = [n \in Names |-> None]
    /\ highest_prerelease = [n \in Names |-> None]
    /\ call = NoCall
    /\ bump_command = NoCommand

(***************************************************************************)
(* The bump command: resolve each text, build the tree.                    *)
(***************************************************************************)
tree_vars == << todo_roots, stack, nodes, new_roots, root_nodes,
                highest_stable, highest_prerelease >>

workspace_vars == << stable_workspace, prerelease_workspace, release_channel,
                     bump_command >>

\* One text is resolved; an error ends the command before any tree is built.
Resolve(s) ==
    /\ pc = "resolve"
    /\ Len(resolved) < MaxRoots
    /\ LET r == from_str(s, release_channel) IN
       /\ resolved' = Append(resolved, [text |-> s, result |-> r])
       /\ root_instructions' = root_instructions \o r.instr
       /\ pc' = IF r.kind = "Err" THEN "error" ELSE "resolve"
       /\ call' = [fn |-> "from_str", text |-> s, channel |-> release_channel,
                   result |-> r]
    /\ UNCHANGED << workspace_vars, tree_vars >>

\* BumpTree::new is entered with the instructions resolved so far.
NewTree ==
    /\ pc = "resolve"
    /\ Len(resolved) >= 1
    /\ pc' = "build"
    /\ todo_roots' = root_instructions
    /\ UNCHANGED << workspace_vars, resolved, root_instructions, stack, nodes,
                    new_roots, root_nodes, highest_stable, highest_prerelease, call >>

\* The next root instruction is mapped: new_node is entered for it.
RootNode ==
    /\ pc = "build"
    /\ stack = << >>
    /\ todo_roots # << >>
    /\ LET i == Head(todo_roots)
           n == root_node_instructions(i, release_channel)
       IN /\ stack' = << Frame(n.stable, n.prerelease,
                               unique_children(n.stable, n.prerelease)) >>
          /\ call' = [fn |-> "root", name |-> i.package,
                      stable_parent_bump_instruction |-> None,
                      prerelease_package |-> get(prerelease_workspace, i.package),
                      stable_package |-> get(stable_workspace, i.package),
                      stable_bump_instruction |-> n.stable,
                      prerelease_parent_bump_instruction |-> None,
                      result |-> n.prerelease]
    /\ todo_roots' = Tail(todo_roots)
    /\ UNCHANGED << workspace_vars, pc, resolved, root_instructions, nodes,
                    new_roots, root_nodes, highest_stable, highest_prerelease >>

\* The innermost new_node derives its next child, in any order of the set.
ChildNode(name) ==
    /\ pc = "build"
    /\ stack # << >>
    /\ Len(stack) < MaxDepth
    /\ LET top == stack[Len(stack)]
           n == derive_child_node(top.stable, top.prerelease,
                                  get(stable_workspace, name),
                                  get(prerelease_workspace, name))
       IN /\ name \in top.unique_children
          /\ stack' = Append(
                 [stack EXCEPT ![Len(stack)].unique_children = @ \ {name}],
                 Frame(n.stable, n.prerelease,
                       unique_children(n.stable, n.prerelease)))
          /\ call' = [fn |-> "derive", name |-> name,
                      stable_parent_bump_instruction |-> top.stable,
                      prerelease_package |-> get(prerelease_workspace, name),
                      stable_package |-> get(stable_workspace, name),
                      stable_bump_instruction |-> n.stable,
                      prerelease_parent_bump_instruction |-> top.prerelease,
                      result |-> n.prerelease]
    /\ UNCHANGED << workspace_vars, pc, resolved, root_instructions, todo_roots, nodes,
                    new_roots, root_nodes, highest_stable, highest_prerelease >>

\* A variant of new_node that writes the instruction's next_version to its
\* package, as the caller does once the tree is built.
after_new_node_applied(workspace, branch, instruction) ==
    IF IsSome(instruction) /\ Unwrap(instruction).branch = branch
    THEN [workspace EXCEPT !.packages[Unwrap(instruction).package] =
                               Some(Unwrap(instruction).next_version)]
    ELSE workspace

\* The workspace of a branch after new_node built a node from an
\* instruction: the instruction is cloned into the node and the package is
\* only borrowed, set_version is not called.
after_new_node(workspace, branch, instruction) == workspace

\* The innermost new_node has derived all its children: it creates its
\* BumpNode, records it in the two maps and returns it.
CreateNode ==
    /\ pc = "build"
    /\ stack # << >>
    /\ LET top == stack[Len(stack)]
           id == Len(nodes) + 1
           rest == SubSeq(stack, 1, Len(stack) - 1)
       IN /\ top.unique_children = {}
          /\ stable_workspace' = after_new_node(stable_workspace, "stable", top.stable)
          /\ prerelease_workspace' =
                 after_new_node(prerelease_workspace, "prerelease", top.prerelease)
          /\ nodes' = Append(nodes, BumpNode(top.stable, top.prerelease, top.children))
          /\ highest_stable' = register(highest_stable, "stable", top.stable, id)
          /\ highest_prerelease' =
                 register(highest_prerelease, "prerelease", top.prerelease, id)
          /\ IF rest = << >>
             THEN /\ new_roots' = Append(new_roots, id)
                  /\ stack' = rest
             ELSE /\ new_roots' = new_roots
                  /\ stack' = [rest EXCEPT ![Len(rest)].children = Append(@, id)]
    /\ UNCHANGED << release_channel, pc, resolved, root_instructions, todo_roots,
                    root_nodes, call, bump_command >>

\* The recursion goes deeper than the call stack holds: new_node keeps
\* deriving children, nothing stops it, and the process is lost.
StackOverflow ==
    /\ pc = "build"
    /\ Len(stack) = MaxDepth
    /\ stack[Len(stack)].unique_children # {}
    /\ pc' = "overflow"
    /\ UNCHANGED << workspace_vars, resolved, root_instructions, tree_vars, call >>

\* set_root_nodes, and BumpTree::new returns.
SetRootNodes ==
    /\ pc = "build"
    /\ stack = << >>
    /\ todo_roots = << >>
    /\ root_nodes' = new_roots
    /\ pc' = "done"
    /\ UNCHANGED << workspace_vars, resolved, root_instructions, todo_roots, stack,
                    nodes, new_roots, highest_stable, highest_prerelease, call >>

\* BumpNode::package_name of a created node; "panic" when neither side is set.
package_name(id) ==
    IF IsSome(nodes[id].stable) THEN Unwrap(nodes[id].stable).package
    ELSE IF IsSome(nodes[id].prerelease) THEN Unwrap(nodes[id].prerelease).package
    ELSE "panic"

\* fmt_node's filter: the child is the recorded node of its package on a side.
significant(c) ==
    \/ highest_stable[package_name(c)] = Some(c)
    \/ highest_prerelease[package_name(c)] = Some(c)

children_of(id) == { nodes[id].children[k] : k \in 1..Len(nodes[id].children) }

\* Whether fmt_node panics on a node: on its own name, in the filter over
\* its children, or below one of the children it keeps.
RECURSIVE fmt_node_panics(_)
fmt_node_panics(id) ==
    \/ package_name(id) = "panic"
    \/ \E c \in children_of(id) : package_name(c) = "panic"
    \/ \E c \in children_of(id) : significant(c) /\ fmt_node_panics(c)

\* Display for BumpTree: the finished tree is rendered, root by root.
Display ==
    /\ pc = "done"
    /\ pc' = IF \E k \in 1..Len(root_nodes) : fmt_node_panics(root_nodes[k])
             THEN "panic"
             ELSE "rendered"
    /\ UNCHANGED << workspace_vars, resolved, root_instructions, tree_vars, call >>

Next ==
    \/ \E s \in Texts : Resolve(s)
    \/ NewTree
    \/ RootNode
    \/ \E name \in Names : ChildNode(name)
    \/ CreateNode
    \/ StackOverflow
    \/ SetRootNodes
    \/ Display

Spec == Init /\ [][Next]_vars


(***************************************************************************)
(* The library functions on one package "a" over a wide range of versions: *)
(* each behaviour is one call, recorded in call.  Package "b" is the       *)
(* parent whose prerelease instruction a reconciliation may be given.      *)
(***************************************************************************)
FnVersions ==
    { V(ma, mi, pa, pr) : ma \in 0..MaxVer, mi \in 0..MaxVer, pa \in 0..MaxPatch,
                          pr \in {"", "alpha"} }

\* A stable release carries no prerelease label (commands/bump.rs, validate).
FnStableVersions == { v \in FnVersions : v.pre = "" }

FnPackages(a, b) == [n \in Names |-> IF n = "a" THEN a ELSE IF n = "b" THEN b ELSE None]

FnInit ==
    /\ \E sa \in {None} \cup { Some(v) : v \in FnStableVersions },
          pa \in {None} \cup { Some(v) : v \in FnVersions } :
         /\ stable_workspace = MakeWorkspace(FnPackages(sa, Equal10[1]), {})
         /\ prerelease_workspace = MakeWorkspace(FnPackages(pa, Equal10[2]), {})
    /\ release_channel = "Stable"
    /\ pc = "fn"
    /\ resolved = << >>
    /\ root_instructions = << >>
    /\ todo_roots = << >>
    /\ stack = << >>
    /\ nodes = << >>
    /\ new_roots = << >>
    /\ root_nodes = << >>
    /\ highest_stable = [n \in Names |-> None]
    /\ highest_prerelease = [n \in Names |-> None]
    /\ call = NoCall
    /\ bump_command = NoCommand

FnTokens == Tokens \cup {"Major", "MINOR", "bogus"}

FnTexts == { Text("a", Some(t)) : t \in FnTokens } \cup { Text("a", None) }

\* The stable instructions the resolver and derive_child_node build for "a".
FnStableInstructions ==
    IF IsSome(stable_workspace.packages["a"])
    THEN { BumpInstruction("stable", "a", bump(version("stable", "a"), t, u)) :
             t \in BumpTypes, u \in BOOLEAN }
    ELSE {}

\* Instructions on the prerelease parent "b" (1.0.0), one of each magnitude.
FnParentInstructions ==
    { BumpInstruction("prerelease", "b", with_prerelease(bump(version("prerelease", "b"), t, TRUE))) :
        t \in BumpTypes }

FnFromStr(s, channel) ==
    /\ pc = "fn"
    /\ call' = [fn |-> "from_str", text |-> s, channel |-> channel,
                result |-> from_str(s, channel)]
    /\ pc' = "returned"
    /\ UNCHANGED << workspace_vars, tree_vars, resolved, root_instructions >>

\* A Stable-channel root: the text is resolved and the root's two
\* instructions are computed as BumpTree::new does.
FnRoot(s) ==
    /\ pc = "fn"
    /\ LET r == from_str(s, "Stable") IN
       /\ r.kind = "Some"
       /\ LET i == Unwrap(r.instr)
              n == root_node_instructions(i, "Stable")
          IN call' = [fn |-> "root", name |-> i.package,
                      stable_parent_bump_instruction |-> None,
                      prerelease_package |-> get(prerelease_workspace, i.package),
                      stable_package |-> get(stable_workspace, i.package),
                      stable_bump_instruction |-> n.stable,
                      prerelease_parent_bump_instruction |-> None,
                      result |-> n.prerelease]
    /\ pc' = "returned"
    /\ UNCHANGED << workspace_vars, tree_vars, resolved, root_instructions >>

FnCompute(stable_bump_instruction, prerelease_parent_bump_instruction) ==
    /\ pc = "fn"
    /\ call' = [fn |-> "compute", name |-> "a",
                stable_parent_bump_instruction |-> None,
                prerelease_package |-> get(prerelease_workspace, "a"),
                stable_package |-> get(stable_workspace, "a"),
                stable_bump_instruction |-> stable_bump_instruction,
                prerelease_parent_bump_instruction |-> prerelease_parent_bump_instruction,
                result |-> compute_prerelease_bump_instruction(
                               get(prerelease_workspace, "a"),
                               get(stable_workspace, "a"),
                               stable_bump_instruction,
                               prerelease_parent_bump_instruction)]
    /\ pc' = "returned"
    /\ UNCHANGED << workspace_vars, tree_vars, resolved, root_instructions >>

FnBumpType(next_version) ==
    /\ pc = "fn"
    /\ IsSome(stable_workspace.packages["a"])
    /\ LET i == BumpInstruction("stable", "a", next_version) IN
       call' = [fn |-> "bump_type", instruction |-> i, result |-> bump_type(i)]
    /\ pc' = "returned"
    /\ UNCHANGED << workspace_vars, tree_vars, resolved, root_instructions >>

FnNext ==
    \/ \E s \in FnTexts, channel \in Channels : FnFromStr(s, channel)
    \/ \E s \in FnTexts : FnRoot(s)
    \/ \E si \in {None} \cup { Some(i) : i \in FnStableInstructions },
          ppi \in {None} \cup { Some(i) : i \in FnParentInstructions } :
         FnCompute(si, ppi)
    \/ \E v \in FnStableVersions : FnBumpType(v)

SpecFn == FnInit /\ [][FnNext]_vars

(***************************************************************************)
(* The make-at-least-stable command on one workspace, run once or twice.   *)
(***************************************************************************)
\* A variant that leaves the patch number of a 0.0.x version in place.
new_version_keeps_patch(cur_version) ==
    LET new_version == [cur_version EXCEPT !.pre = ""] IN
    IF new_version.major = 0 /\ new_version.minor = 0
    THEN [new_version EXCEPT !.minor = 1]
    ELSE new_version

\* exec, the version computed for one package: the prerelease suffix is
\* removed, then the version is brought to at least 0.1.0.
new_version(cur_version) ==
    LET stripped == IF cur_version.pre # ""
                    THEN [cur_version EXCEPT !.pre = ""]
                    ELSE cur_version
    IN IF stripped.major = 0 /\ stripped.minor = 0
       THEN [stripped EXCEPT !.minor = 1, !.patch = 0]
       ELSE stripped

MakeInit ==
    /\ \E a \in FnVersions, b \in FnVersions :
         stable_workspace = MakeWorkspace(FnPackages(Some(a), Some(b)), {})
    /\ prerelease_workspace = MakeWorkspace(FnPackages(None, None), {})
    /\ release_channel = "Stable"
    /\ pc = "make"
    /\ resolved = << >>
    /\ root_instructions = << >>
    /\ todo_roots = << >>
    /\ stack = << >>
    /\ nodes = << >>
    /\ new_roots = << >>
    /\ root_nodes = << >>
    /\ highest_stable = [n \in Names |-> None]
    /\ highest_prerelease = [n \in Names |-> None]
    /\ call = NoCall
    /\ bump_command = NoCommand

\* make_at_least_stable::exec: every package whose computed version differs
\* from its current one is written with set_version.
make_at_least_stable_exec ==
    /\ pc \in {"make", "made"}
    /\ LET members == { p \in Names : IsSome(stable_workspace.packages[p]) }
           written == { p \in members :
                          new_version(version("stable", p)) # version("stable", p) }
       IN /\ stable_workspace' =
                 [stable_workspace EXCEPT !.packages =
                     [p \in Names |->
                        IF p \in written
                        THEN Some(new_version(version("stable", p)))
                        ELSE stable_workspace.packages[p]]]
          /\ call' = [fn |-> "make_at_least_stable",
                      before |-> stable_workspace.packages,
                      written |-> written]
    /\ pc' = IF pc = "make" THEN "made" ELSE "made_again"
    /\ UNCHANGED << prerelease_workspace, release_channel, resolved,
                    root_instructions, tree_vars, bump_command >>

MakeNext == make_at_least_stable_exec

SpecMake == MakeInit /\ [][MakeNext]_vars

(***************************************************************************)
(* The make-prerelease command on one workspace: the packages are visited  *)
(* in the order of the HashMap, which is any order.                        *)
(***************************************************************************)
\* Version::from_str(format!("{}-alpha.1", cur_version)) of a version
\* without a prerelease part.
append_prerelease_suffix(cur_version) ==
    V(cur_version.major, cur_version.minor, cur_version.patch, "alpha.1")

PrereleaseInit ==
    /\ \E a \in FnVersions, b \in FnVersions :
         /\ stable_workspace = MakeWorkspace(FnPackages(Some(a), Some(b)), {})
         /\ bump_command = [package_changes |-> << >>,
                            before |-> FnPackages(Some(a), Some(b)),
                            done |-> {}]
    /\ prerelease_workspace = MakeWorkspace(FnPackages(None, None), {})
    /\ release_channel = "Prerelease"
    /\ pc = "make_prerelease"
    /\ resolved = << >>
    /\ root_instructions = << >>
    /\ todo_roots = << >>
    /\ stack = << >>
    /\ nodes = << >>
    /\ new_roots = << >>
    /\ root_nodes = << >>
    /\ highest_stable = [n \in Names |-> None]
    /\ highest_prerelease = [n \in Names |-> None]
    /\ call = NoCall

\* One turn of exec's loop: a package that already has a prerelease version
\* ends the command with an error, any other is written at once.
make_prerelease_package(name) ==
    /\ pc = "make_prerelease"
    /\ IsSome(stable_workspace.packages[name])
    /\ name \notin bump_command.done
    /\ LET cur_version == version("stable", name) IN
       IF cur_version.pre # ""
       THEN /\ pc' = "error"
            /\ UNCHANGED << stable_workspace, bump_command >>
       ELSE /\ stable_workspace' =
                   [stable_workspace EXCEPT
                      !.packages[name] = Some(append_prerelease_suffix(cur_version))]
            /\ bump_command' = [bump_command EXCEPT !.done = @ \cup {name}]
            /\ pc' = pc
    /\ UNCHANGED << prerelease_workspace, release_channel, resolved,
                    root_instructions, tree_vars, call >>

\* The loop is over: Ok(()).
make_prerelease_ok ==
    /\ pc = "make_prerelease"
    /\ bump_command.done = { n \in Names : IsSome(stable_workspace.packages[n]) }
    /\ pc' = "ok"
    /\ UNCHANGED << workspace_vars, resolved, root_instructions, tree_vars, call >>

PrereleaseNext ==
    \/ \E name \in Names : make_prerelease_package(name)
    \/ make_prerelease_ok

SpecPrerelease == PrereleaseInit /\ [][PrereleaseNext]_vars

(***************************************************************************)
(* commands::bump, stable::exec: the requested changes are validated, the  *)
(* tree is built and printed, and the new versions are written: first to   *)
(* the stable workspace, then to the prerelease one.                       *)
(***************************************************************************)
PackageChange(name, requested) == [name |-> name, version |-> requested]

\* A variant that lets a labelled version through.
validate_any_label(package, requested) ==
    IF ~IsSome(stable_workspace.packages[package]) THEN "panic"
    ELSE IF VLe(requested, version("stable", package)) THEN "Err"
    ELSE "Ok"

\* stable::validate; "panic" is the expect on a package the workspace lacks.
validate(package, requested) ==
    IF requested.pre # "" THEN "Err"
    ELSE IF ~IsSome(stable_workspace.packages[package]) THEN "panic"
    ELSE IF VLe(requested, version("stable", package)) THEN "Err"
    ELSE "Ok"

\* bump_tree.bumped: for each package the tree bumps, its new stable version
\* and its new prerelease version, if it has one.
bumped ==
    [p \in { q \in Names : IsSome(highest_stable[q]) } |->
        [next_version |-> Unwrap(nodes[Unwrap(highest_stable[p])].stable).next_version,
         next_prerelease_version |->
             IF IsSome(highest_prerelease[p])
             THEN Some(Unwrap(nodes[Unwrap(highest_prerelease[p])].prerelease).next_version)
             ELSE None]]

\* Package::set_version on a package of a workspace.
set_version(workspace, name, next) ==
    [workspace EXCEPT !.packages[name] = Some(next)]

BumpVersions == { V(1, 0, 0, ""), V(1, 1, 0, ""), V(2, 0, 0, ""), V(2, 0, 0, "alpha") }

PackageChanges == { PackageChange(n, v) : n \in RootNames, v \in BumpVersions }

\* The package_changes of one run: up to MaxRoots of them.
ChangeLists ==
    UNION { [1..k -> PackageChanges] : k \in 1..MaxRoots }

\* The workspaces the command is run on: every package at 1.0.0; b ahead on
\* the prerelease branch and c at 0.1.0; b on the prerelease branch only and
\* c on the stable branch only; a and b depending on each other.
BumpInputs ==
    { << MakeWorkspace([n \in Names |-> Equal10[1]], Edges),
         MakeWorkspace([n \in Names |-> Equal10[2]], Edges) >>,
      << MakeWorkspace([a |-> Equal10[1], b |-> Ahead20[1], c |-> Equal01[1]], Edges),
         MakeWorkspace([a |-> Equal10[2], b |-> Ahead20[2], c |-> Equal01[2]], Edges) >>,
      << MakeWorkspace([a |-> Equal10[1], b |-> PrereleaseOnly[1], c |-> StableOnly[1]], Edges),
         MakeWorkspace([a |-> Equal10[2], b |-> PrereleaseOnly[2], c |-> StableOnly[2]], Edges) >>,
      << MakeWorkspace([n \in Names |-> Equal10[1]], { <<"a", "b">>, <<"b", "a">> }),
         MakeWorkspace([n \in Names |-> Equal10[2]], { <<"a", "b">> }) >> }

\* prerelease_workspace_option = None: a workspace without packages.
NoWorkspace == MakeWorkspace([n \in Names |-> None], {})

BumpInit ==
    /\ \E w \in BumpInputs, some \in BOOLEAN, dry_run \in BOOLEAN, cs \in ChangeLists :
         /\ stable_workspace = w[1]
         /\ prerelease_workspace = IF some THEN w[2] ELSE NoWorkspace
         /\ bump_command =
                [package_changes |-> cs,
                 prerelease_workspace_option |-> some,
                 dry_run |-> dry_run,
                 before |-> [stable |-> w[1].packages,
                             prerelease |-> IF some THEN w[2].packages
                                            ELSE NoWorkspace.packages],
                 stable_done |-> {},
                 prerelease_done |-> {},
                 writes |-> << >>]
    /\ release_channel = "Stable"
    /\ pc = "validate"
    /\ resolved = << >>
    /\ root_instructions = << >>
    /\ todo_roots = << >>
    /\ stack = << >>
    /\ nodes = << >>
    /\ new_roots = << >>
    /\ root_nodes = << >>
    /\ highest_stable = [n \in Names |-> None]
    /\ highest_prerelease = [n \in Names |-> None]
    /\ call = NoCall

\* The next entry is validated; an Err is returned with `?`.
bump_validate ==
    /\ pc = "validate"
    /\ Len(resolved) < Len(bump_command.package_changes)
    /\ LET entry == bump_command.package_changes[Len(resolved) + 1]
           r == validate(entry.name, entry.version)
       IN /\ resolved' = Append(resolved, [text |-> entry, result |-> r])
          /\ pc' = CASE r = "Ok" -> "validate"
                     [] r = "Err" -> "error"
                     [] r = "panic" -> "panic"
    /\ UNCHANGED << workspace_vars, root_instructions, tree_vars, call >>

\* Every entry is valid: root_packages is collected and BumpTree::new entered.
bump_tree_new ==
    /\ pc = "validate"
    /\ Len(resolved) = Len(bump_command.package_changes)
    /\ LET root_packages ==
               [k \in 1..Len(bump_command.package_changes) |->
                   BumpInstruction("stable", bump_command.package_changes[k].name,
                                   bump_command.package_changes[k].version)]
       IN /\ root_instructions' = root_packages
          /\ todo_roots' = root_packages
    /\ pc' = "build"
    /\ UNCHANGED << workspace_vars, resolved, stack, nodes, new_roots, root_nodes,
                    highest_stable, highest_prerelease, call >>

\* "Dry-run: aborting"
dry_run_abort ==
    /\ pc = "rendered"
    /\ bump_command.dry_run
    /\ pc' = "aborted"
    /\ UNCHANGED << workspace_vars, resolved, root_instructions, tree_vars, call >>

\* stable_workspace.checkout_local_branch()?: git may refuse.
stable_checkout ==
    /\ pc = "rendered"
    /\ ~bump_command.dry_run
    /\ pc' \in {"apply_stable", "error"}
    /\ UNCHANGED << workspace_vars, resolved, root_instructions, tree_vars, call >>

\* One turn of the loop over bumped on the stable branch.
stable_set_version(name) ==
    /\ pc = "apply_stable"
    /\ name \in DOMAIN bumped
    /\ name \notin bump_command.stable_done
    /\ LET b == bumped[name] IN
       /\ stable_workspace' = set_version(stable_workspace, name, b.next_version)
       /\ bump_command' =
              [bump_command EXCEPT
                 !.stable_done = @ \cup {name},
                 !.writes = Append(@, [branch |-> "stable", name |-> name,
                                       version |-> b.next_version])]
    /\ UNCHANGED << prerelease_workspace, release_channel, pc, resolved,
                    root_instructions, tree_vars, call >>

\* The loop is over: lockfile, commit, and, with a prerelease workspace,
\* its checkout and the new branch; each of them may fail.
stable_commit ==
    /\ pc = "apply_stable"
    /\ bump_command.stable_done = DOMAIN bumped
    /\ pc' \in {"error",
                IF bump_command.prerelease_workspace_option
                THEN "apply_prerelease" ELSE "finished"}
    /\ UNCHANGED << workspace_vars, resolved, root_instructions, tree_vars, call >>

\* One turn of the loop over bumped on the prerelease branch: a package the
\* prerelease workspace lacks is skipped, a missing new version is a panic.
prerelease_set_version(name) ==
    /\ pc = "apply_prerelease"
    /\ name \in DOMAIN bumped
    /\ name \notin bump_command.prerelease_done
    /\ LET b == bumped[name] IN
       IF ~IsSome(get(prerelease_workspace, name))
       THEN /\ bump_command' = [bump_command EXCEPT !.prerelease_done = @ \cup {name}]
            /\ UNCHANGED << prerelease_workspace, pc >>
       ELSE IF ~IsSome(b.next_prerelease_version)
       THEN /\ pc' = "panic"
            /\ UNCHANGED << prerelease_workspace, bump_command >>
       ELSE /\ prerelease_workspace' =
                   set_version(prerelease_workspace, name,
                               Unwrap(b.next_prerelease_version))
            /\ bump_command' =
                   [bump_command EXCEPT
                      !.prerelease_done = @ \cup {name},
                      !.writes = Append(@, [branch |-> "prerelease", name |-> name,
                                            version |-> Unwrap(b.next_prerelease_version)])]
            /\ pc' = pc
    /\ UNCHANGED << stable_workspace, release_channel, resolved, root_instructions,
                    tree_vars, call >>

\* The second loop is over: lockfile and commit, which may fail, and the
\* checkout back to the original branch.
prerelease_commit ==
    /\ pc = "apply_prerelease"
    /\ bump_command.prerelease_done = DOMAIN bumped
    /\ pc' \in {"finished", "error"}
    /\ UNCHANGED << workspace_vars, resolved, root_instructions, tree_vars, call >>

BumpNext ==
    \/ bump_validate
    \/ bump_tree_new
    \/ RootNode
    \/ \E name \in Names : ChildNode(name)
    \/ CreateNode
    \/ StackOverflow
    \/ SetRootNodes
    \/ Display
    \/ dry_run_abort
    \/ stable_checkout
    \/ \E name \in Names : stable_set_version(name)
    \/ stable_commit
    \/ \E name \in Names : prerelease_set_version(name)
    \/ prerelease_commit

SpecBump == BumpInit /\ [][BumpNext]_vars

(***************************************************************************)
(* BumpTree::new as a function of the order in which the root instructions *)
(* are given: the instruction each map ends up holding for each package.   *)
(* The dependents of a node are taken in one fixed order of the HashSet.   *)
(***************************************************************************)
EmptyMaps == [stable |-> [n \in Names |-> None], prerelease |-> [n \in Names |-> None]]

\* new_node's registration on one map, the entry being the instruction of
\* the recorded node.
and_modify_or_insert(map, instruction) ==
    IF ~IsSome(instruction) THEN map
    ELSE LET i == Unwrap(instruction)
             e == map[i.package]
         IN IF ~IsSome(e) THEN [map EXCEPT ![i.package] = Some(i)]
            ELSE IF Rank(bump_type(Unwrap(e))) < Rank(bump_type(i))
            THEN [map EXCEPT ![i.package] = Some(i)]
            ELSE map

RECURSIVE new_node_maps(_, _, _, _)
RECURSIVE children_nodes_maps(_, _, _, _, _)

\* new_node: the children first, then the node itself is registered.
new_node_maps(stable, prerelease, maps, depth) ==
    LET after == children_nodes_maps(stable, prerelease,
                                     unique_children(stable, prerelease), maps, depth)
    IN [stable |-> and_modify_or_insert(after.stable, stable),
        prerelease |-> and_modify_or_insert(after.prerelease, prerelease)]

children_nodes_maps(stable, prerelease, todo, maps, depth) ==
    IF todo = {} \/ depth = 0 THEN maps
    ELSE LET name == CHOOSE n \in todo : TRUE
             n == derive_child_node(stable, prerelease,
                                    get(stable_workspace, name),
                                    get(prerelease_workspace, name))
         IN children_nodes_maps(stable, prerelease, todo \ {name},
                                new_node_maps(n.stable, n.prerelease, maps, depth - 1),
                                depth)

\* BumpTree::new over a list of root instructions.
RECURSIVE tree_maps(_, _, _)
tree_maps(instructions, channel, maps) ==
    IF instructions = << >> THEN maps
    ELSE LET n == root_node_instructions(Head(instructions), channel)
         IN tree_maps(Tail(instructions), channel,
                      new_node_maps(n.stable, n.prerelease, maps, MaxDepth))

Reverse(seq) == [k \in 1..Len(seq) |-> seq[Len(seq) + 1 - k]]

(***************************************************************************)
(* What the finished tree says, and the properties checked of it.          *)
(***************************************************************************)
\* The instruction the map's node holds for package p on the map's channel.
recorded_stable(p) == Unwrap(nodes[Unwrap(highest_stable[p])].stable)
recorded_prerelease(p) == Unwrap(nodes[Unwrap(highest_prerelease[p])].prerelease)

\* The prerelease version of p once the maps are applied.
applied_prerelease_version(p) ==
    IF IsSome(highest_prerelease[p])
    THEN recorded_prerelease(p).next_version
    ELSE version("prerelease", p)

\* C1: after a Stable-channel build, every package recorded in highest_stable
\* that exists on the prerelease branch ends with a prerelease version
\* strictly greater than its new stable version.
C1_PrereleaseStaysAhead ==
    (pc = "done" /\ release_channel = "Stable") =>
        \A p \in Names :
            (IsSome(highest_stable[p]) /\ IsSome(prerelease_workspace.packages[p])) =>
                VLt(recorded_stable(p).next_version, applied_prerelease_version(p))

\* The ids of the nodes created so far that carry an instruction for p on a side.
nodes_for(side, p) ==
    { id \in 1..Len(nodes) :
        IsSome(nodes[id][side]) /\ Unwrap(nodes[id][side]).package = p }

magnitude(side, id) == Rank(bump_type(Unwrap(nodes[id][side])))

highest_is_maximum(highest, side, p) ==
    /\ IsSome(highest[p]) <=> nodes_for(side, p) # {}
    /\ IsSome(highest[p]) =>
         /\ Unwrap(highest[p]) \in nodes_for(side, p)
         /\ \A id \in nodes_for(side, p) :
              magnitude(side, id) <= magnitude(side, Unwrap(highest[p]))

\* C2: at every point of the build each map has an entry for p exactly when
\* a node with an instruction for p on that channel has been created, and the
\* entry's magnitude is the greatest among those nodes, whatever the order.
C2_HighestIsMaximum ==
    \A p \in Names :
        /\ highest_is_maximum(highest_stable, "stable", p)
        /\ highest_is_maximum(highest_prerelease, "prerelease", p)

\* A package reached twice, the smaller stable magnitude first: the entry
\* was replaced by the later, greater node.
C2_Witness ==
    \E p \in Names : \E first, second \in nodes_for("stable", p) :
        /\ first < second
        /\ magnitude("stable", first) < magnitude("stable", second)
        /\ highest_stable[p] = Some(second)
        /\ nodes[second].children = << >>
        /\ Len(stack) > 0

\* A call of compute_prerelease_bump_instruction is on record: directly, for
\* a Stable-channel root, or for a derived child.
reconcile_call ==
    \/ call.fn \in {"compute", "derive"}
    \/ call.fn = "root" /\ release_channel = "Stable"

\* C3: an instruction returned by compute_prerelease_bump_instruction is
\* strictly above the next_version of the stable instruction it was given,
\* and strictly above the stable package's current version when it was
\* given none.
C3_ReconciledAboveStable ==
    (reconcile_call /\ IsSome(call.result)) =>
        LET next_version == Unwrap(call.result).next_version IN
        IF IsSome(call.stable_bump_instruction)
        THEN VLt(Unwrap(call.stable_bump_instruction).next_version, next_version)
        ELSE VLt(version("stable", call.name), next_version)

\* The reconciler answered from a stable instruction and a prerelease parent.
C3_Witness ==
    /\ call.fn = "compute"
    /\ IsSome(call.stable_bump_instruction)
    /\ IsSome(call.prerelease_parent_bump_instruction)
    /\ IsSome(call.result)

\* The reconciler answered from the prerelease parent alone.
C3_WitnessParentOnly ==
    /\ call.fn = "compute"
    /\ ~IsSome(call.stable_bump_instruction)
    /\ IsSome(call.prerelease_parent_bump_instruction)
    /\ IsSome(call.result)

\* The magnitude of the step from cur to next, as a table.
expected_bump_type(cur, next) ==
    IF next.major > cur.major THEN "Major"
    ELSE IF cur.major = 0 /\ next.major = 0 /\ next.minor > cur.minor THEN "Major"
    ELSE IF next.minor > cur.minor THEN "Minor"
    ELSE "Patch"

\* The version the prerelease line must reach to stay clear of a stable
\* step from cur to next.
leapfrog(cur, next) ==
    IF expected_bump_type(cur, next) \in {"Major", "Minor"}
    THEN IF next.major > 0
         THEN V(next.major + 1, 0, 0, "alpha")
         ELSE V(0, next.minor + 1, 0, "alpha")
    ELSE V(next.major, next.minor, next.patch + 1, "alpha")

stable_root_on_both ==
    /\ call.fn = "root"
    /\ release_channel = "Stable"
    /\ IsSome(call.stable_package)
    /\ IsSome(call.prerelease_package)

final_candidate ==
    highest_candidate(candidate1(call.stable_bump_instruction),
                      candidate2(call.prerelease_parent_bump_instruction,
                                 version("stable", call.name)))

\* C6: the reconciler returns an instruction only when the final candidate
\* is strictly above the current prerelease version, and none when the
\* current prerelease version is at or above it.
C6_OnlyStrictlyAhead ==
    (reconcile_call /\ IsSome(call.stable_package) /\ IsSome(call.prerelease_package)) =>
        LET cur_prerelease_version == version("prerelease", call.name) IN
        /\ IsSome(call.result) =>
             /\ IsSome(final_candidate)
             /\ Unwrap(call.result).next_version = Unwrap(final_candidate)
             /\ VLt(cur_prerelease_version, Unwrap(call.result).next_version)
        /\ (IsSome(final_candidate)
              /\ VLe(Unwrap(final_candidate), cur_prerelease_version)) =>
             call.result = None
        /\ (call.fn = "root" /\ version("stable", call.name) = V(1, 0, 0, "")) =>
             LET next == Unwrap(call.stable_bump_instruction).next_version IN
             /\ (next = V(1, 1, 0, "")
                   /\ cur_prerelease_version = V(2, 0, 0, "alpha")) =>
                  call.result = None
             /\ (next = V(1, 0, 1, "")
                   /\ cur_prerelease_version \in
                          {V(1, 1, 0, "alpha"), V(2, 0, 0, "alpha")}) =>
                  call.result = None

\* stable a minor from 1.0.0 with the prerelease line at 2.0.0-alpha: the
\* candidate equals the current prerelease version and nothing is returned.
C6_Witness ==
    /\ call.fn = "root"
    /\ release_channel = "Stable"
    /\ version("stable", call.name) = V(1, 0, 0, "")
    /\ IsSome(call.prerelease_package)
    /\ version("prerelease", call.name) = V(2, 0, 0, "alpha")
    /\ Unwrap(call.stable_bump_instruction).next_version = V(1, 1, 0, "")
    /\ final_candidate = Some(V(2, 0, 0, "alpha"))
    /\ call.result = None

\* C7: bump_type is Major when the major number grows or, with both major
\* numbers 0, the minor number grows; otherwise Minor when the minor number
\* grows; otherwise Patch.
C7_BumpTypeTable ==
    call.fn = "bump_type" =>
        LET cur == version("stable", call.instruction.package)
            next == call.instruction.next_version
        IN
        /\ call.result = expected_bump_type(cur, next)
        /\ cur = V(1, 0, 0, "") =>
             /\ next = V(2, 0, 0, "") => call.result = "Major"
             /\ next = V(1, 1, 0, "") => call.result = "Minor"
             /\ next = V(1, 0, 1, "") => call.result = "Patch"
        /\ cur = V(0, 1, 0, "") =>
             /\ next = V(1, 0, 0, "") => call.result = "Major"
             /\ next = V(0, 2, 0, "") => call.result = "Major"
             /\ next = V(0, 1, 1, "") => call.result = "Patch"

\* 0.1.0 -> 0.2.0 was classified, as Major.
C7_Witness ==
    /\ call.fn = "bump_type"
    /\ version("stable", call.instruction.package) = V(0, 1, 0, "")
    /\ call.instruction.next_version = V(0, 2, 0, "")
    /\ call.result = "Major"

\* The bump a user asks for with a token, as a table.
user_bump(v, tok) ==
    IF tok = "major" THEN V(v.major + 1, 0, 0, v.pre)
    ELSE IF tok = "minor" THEN V(v.major, v.minor + 1, 0, v.pre)
    ELSE V(v.major, v.minor, v.patch + 1, v.pre)

\* from_str was called with "<name> <magnitude>" on a channel.
request(channel) ==
    /\ call.fn = "from_str"
    /\ call.channel = channel
    /\ IsSome(call.text.tok)
    /\ Unwrap(call.text.tok) \in Tokens

\* C8: a Stable-channel request on a package of the stable workspace gives
\* an instruction on the stable package whose next_version is the
\* user-initiated bump of the current stable version, with or without a
\* prerelease counterpart and whatever its version.
C8_StableRequest ==
    (request("Stable") /\ IsSome(get(stable_workspace, call.text.name))) =>
        call.result =
            Ok(Some(BumpInstruction("stable", call.text.name,
                        user_bump(version("stable", call.text.name),
                                  Unwrap(call.text.tok)))))

\* "a major" on a stable 0.x package that has no prerelease counterpart.
C8_Witness ==
    /\ request("Stable")
    /\ call.text.tok = Some("major")
    /\ IsSome(get(stable_workspace, call.text.name))
    /\ ~IsSome(get(prerelease_workspace, call.text.name))
    /\ version("stable", call.text.name).major = 0
    /\ call.result.kind = "Some"
    /\ Unwrap(call.result.instr).next_version.major = 1

\* The prerelease version is ahead of the stable one at the token's tier.
ahead_at_tier(tok, pre, stable) ==
    \/ pre.major > stable.major
    \/ tok \in {"minor", "patch"} /\ pre.minor > stable.minor
    \/ tok = "patch" /\ pre.patch > stable.patch

\* C9: a Prerelease-channel request on a package of both workspaces is a
\* no-op exactly when the prerelease version is ahead at the requested tier;
\* otherwise it gives an instruction on the prerelease package whose
\* next_version is the user-initiated bump of the current stable version,
\* labelled.
C9_PrereleaseRequest ==
    (request("Prerelease") /\ IsSome(get(stable_workspace, call.text.name))
                           /\ IsSome(get(prerelease_workspace, call.text.name))) =>
        LET tok == Unwrap(call.text.tok)
            cur_stable_version == version("stable", call.text.name)
            cur_prerelease_version == version("prerelease", call.text.name)
        IN
        /\ call.result =
             IF ahead_at_tier(tok, cur_prerelease_version, cur_stable_version)
             THEN Ok(None)
             ELSE Ok(Some(BumpInstruction("prerelease", call.text.name,
                      [user_bump(cur_stable_version, tok) EXCEPT !.pre = "alpha"])))
        /\ (cur_stable_version = V(1, 0, 0, "") /\ tok = "major") =>
             /\ cur_prerelease_version = V(2, 0, 0, "alpha") => call.result = Ok(None)
             /\ cur_prerelease_version \in {V(1, 1, 0, "alpha"), V(1, 0, 1, "alpha")} =>
                  /\ call.result.kind = "Some"
                  /\ Unwrap(call.result.instr).next_version = V(2, 0, 0, "alpha")

\* stable 1.0.0, prerelease 1.1.0-alpha, "a major": 2.0.0-alpha on the
\* prerelease package.
C9_Witness ==
    /\ request("Prerelease")
    /\ call.text.tok = Some("major")
    /\ IsSome(get(stable_workspace, call.text.name))
    /\ version("stable", call.text.name) = V(1, 0, 0, "")
    /\ IsSome(get(prerelease_workspace, call.text.name))
    /\ version("prerelease", call.text.name) = V(1, 1, 0, "alpha")
    /\ call.result =
           Ok(Some(BumpInstruction("prerelease", call.text.name, V(2, 0, 0, "alpha"))))

\* The same request with the prerelease line a major ahead: a no-op.
C9_WitnessNoOp ==
    /\ request("Prerelease")
    /\ call.text.tok = Some("major")
    /\ IsSome(get(stable_workspace, call.text.name))
    /\ version("stable", call.text.name) = V(1, 0, 0, "")
    /\ IsSome(get(prerelease_workspace, call.text.name))
    /\ version("prerelease", call.text.name) = V(2, 0, 0, "alpha")
    /\ call.result = Ok(None)

\* The three cases in which a text is refused on a channel.
error_case(text, channel) ==
    \/ ~IsSome(text.tok)
    \/ Unwrap(text.tok) \notin Tokens
    \/ channel = "Stable" /\ ~IsSome(get(stable_workspace, text.name))
    \/ /\ channel = "Prerelease"
       /\ IsSome(get(stable_workspace, text.name))
       /\ ~IsSome(get(prerelease_workspace, text.name))

\* The instructions of the texts resolved so far, in order.
RECURSIVE instructions_of(_)
instructions_of(rs) ==
    IF rs = << >> THEN << >> ELSE Head(rs).result.instr \o instructions_of(Tail(rs))

\* C10: from_str fails exactly on a missing or unknown magnitude, on a
\* Stable request for a package absent from the stable workspace, and on a
\* Prerelease request for a package of the stable workspace absent from the
\* prerelease one; a failure yields no instruction and no tree is built.
C10_ErrorCases ==
    /\ \A k \in 1..Len(resolved) :
         /\ resolved[k].result.kind = "Err"
                <=> error_case(resolved[k].text, release_channel)
         /\ resolved[k].result.kind = "Err" => resolved[k].result.instr = None
    /\ root_instructions = instructions_of(resolved)
    /\ pc = "error" =>
         /\ nodes = << >> /\ stack = << >> /\ todo_roots = << >>
         /\ \A p \in Names : highest_stable[p] = None /\ highest_prerelease[p] = None
    /\ pc \in {"build", "done"} =>
         \A k \in 1..Len(resolved) : resolved[k].result.kind # "Err"

\* A Prerelease request on a package the prerelease workspace lacks was
\* refused after an earlier text had been accepted.
C10_Witness ==
    /\ pc = "error"
    /\ release_channel = "Prerelease"
    /\ Len(resolved) = 2
    /\ resolved[1].result.kind = "Some"
    /\ resolved[2].result.kind = "Err"
    /\ IsSome(resolved[2].text.tok)
    /\ Unwrap(resolved[2].text.tok) \in Tokens
    /\ IsSome(get(stable_workspace, resolved[2].text.name))
    /\ ~IsSome(get(prerelease_workspace, resolved[2].text.name))

\* The bump a dependent gets from a parent's stable magnitude, as a table.
derived_stable(parent_bump_type, cur) ==
    IF parent_bump_type = "Major"
    THEN IF cur.major > 0
         THEN V(cur.major + 1, 0, 0, cur.pre)
         ELSE V(0, cur.minor + 1, 0, cur.pre)
    ELSE V(cur.major, cur.minor, cur.patch + 1, cur.pre)

\* Every child of a Stable-channel build whose package is in the stable
\* workspace gets the stable instruction of the table.
child_follows_parent ==
    (release_channel = "Stable" /\ call.fn = "derive" /\ IsSome(call.stable_package)) =>
        /\ IsSome(call.stable_parent_bump_instruction)
        /\ LET parent == Unwrap(call.stable_parent_bump_instruction) IN
           call.stable_bump_instruction =
               Some(BumpInstruction("stable", call.name,
                        derived_stable(
                            expected_bump_type(version("stable", parent.package),
                                               parent.next_version),
                            version("stable", call.name))))

\* The packages reached from p along the dependents of the given branches.
RECURSIVE reach(_, _, _)
reach(branches, ps, k) ==
    IF k = 0 THEN ps
    ELSE reach(branches,
               ps \cup UNION { direct_workspace_dependents(b, q) : b \in branches, q \in ps },
               k - 1)

transitive_dependents(branches, p) ==
    reach(branches,
          UNION { direct_workspace_dependents(b, p) : b \in branches },
          Cardinality(Names))

roots == { root_instructions[k] : k \in 1..Len(root_instructions) }

recorded_as(p, t) == IsSome(highest_stable[p]) /\ bump_type(recorded_stable(p)) = t

major_roots_reach_major ==
    \A r \in roots : bump_type(r) = "Major" =>
        \A p \in transitive_dependents({"stable"}, r.package) : recorded_as(p, "Major")

\* C4, as stated: the children follow the table; hence every transitive
\* stable dependent of a Major root is recorded as Major and every
\* transitive dependent of a Minor or Patch root is recorded as Patch.
C4_AsStated ==
    /\ child_follows_parent
    /\ (pc = "done" /\ release_channel = "Stable") =>
         /\ major_roots_reach_major
         /\ \A r \in roots : bump_type(r) # "Major" =>
              \A p \in transitive_dependents({"stable"}, r.package) :
                  recorded_as(p, "Patch")

\* C4, amended: a transitive dependent of a Minor or Patch root is recorded
\* as Patch, with patch+1, unless it is itself a root of the build or is
\* also a dependent, on either branch, of a Major root.
C4_DerivedStableBump ==
    /\ child_follows_parent
    /\ (pc = "done" /\ release_channel = "Stable") =>
         /\ major_roots_reach_major
         /\ \A r \in roots : bump_type(r) # "Major" =>
              \A p \in transitive_dependents({"stable"}, r.package) :
                  \/ \E q \in roots : q.package = p
                  \/ \E q \in roots :
                       /\ bump_type(q) = "Major"
                       /\ p \in transitive_dependents({"stable", "prerelease"}, q.package)
                  \/ /\ recorded_as(p, "Patch")
                     /\ recorded_stable(p).next_version =
                            derived_stable("Patch", version("stable", p))

\* A finished build with a Minor root and a Major root: the dependent of
\* the Minor root alone is recorded as Patch, the one they share as Major.
C4_Witness ==
    /\ pc = "done"
    /\ release_channel = "Stable"
    /\ Len(root_instructions) = 2
    /\ root_instructions[1].package = "a" /\ bump_type(root_instructions[1]) = "Minor"
    /\ root_instructions[2].package = "b" /\ bump_type(root_instructions[2]) = "Major"
    /\ transitive_dependents({"stable"}, "a") = {"b", "c"}
    /\ recorded_as("c", "Major")
    /\ version("stable", "c") = V(0, 1, 0, "")
    /\ recorded_stable("c").next_version = V(0, 2, 0, "")

\* The k-th text is a well-formed Prerelease request on a package that the
\* stable workspace lacks.
no_stable_counterpart(k) ==
    /\ release_channel = "Prerelease"
    /\ IsSome(resolved[k].text.tok)
    /\ Unwrap(resolved[k].text.tok) \in Tokens
    /\ ~IsSome(get(stable_workspace, resolved[k].text.name))

\* C11: a well-formed Prerelease request on a package without a stable
\* counterpart resolves to Ok(None) for every magnitude, and the tree built
\* from an empty list of root instructions has no root node and two empty
\* maps.
C11_NoStableIsNoOp ==
    /\ \A k \in 1..Len(resolved) :
         no_stable_counterpart(k) => resolved[k].result = Ok(None)
    /\ (pc = "done" /\ root_instructions = << >>) =>
         /\ root_nodes = << >>
         /\ nodes = << >>
         /\ \A p \in Names : highest_stable[p] = None /\ highest_prerelease[p] = None

\* Two such requests were resolved and the tree was built from nothing.
C11_Witness ==
    /\ pc = "done"
    /\ Len(resolved) = 2
    /\ \A k \in 1..Len(resolved) : no_stable_counterpart(k)
    /\ resolved[1].text.tok = Some("major")
    /\ resolved[2].text.tok = Some("patch")
    /\ root_instructions = << >>
    /\ root_nodes = << >>

\* C12: every node created has a stable or a prerelease instruction, so
\* package_name never panics, also when the tree is rendered.
C12_NodeHasInstruction ==
    /\ \A id \in 1..Len(nodes) :
         IsSome(nodes[id].stable) \/ IsSome(nodes[id].prerelease)
    /\ pc # "panic"

\* C13: in a Prerelease-channel build no node or node under construction
\* carries a stable instruction, every root carries a prerelease one, and
\* highest_stable stays empty.
C13_PrereleaseBuildHasNoStable ==
    release_channel = "Prerelease" =>
        /\ \A id \in 1..Len(nodes) : nodes[id].stable = None
        /\ \A k \in 1..Len(stack) : stack[k].stable = None
        /\ \A k \in 1..Len(new_roots) : IsSome(nodes[new_roots[k]].prerelease)
        /\ \A p \in Names : highest_stable[p] = None

\* A finished Prerelease-channel tree with a root and a bumped dependent.
C13_Witness ==
    /\ release_channel = "Prerelease"
    /\ pc = "done"
    /\ Len(root_nodes) >= 1
    /\ \E id \in 1..Len(nodes) :
         /\ id \notin { root_nodes[k] : k \in 1..Len(root_nodes) }
         /\ IsSome(nodes[id].prerelease)
         /\ IsSome(get(stable_workspace, package_name(id)))

\* C14: no step of resolving an instruction or of building the tree changes
\* a package's version in either workspace.
C14_VersionsUntouched ==
    [][/\ stable_workspace' = stable_workspace
       /\ prerelease_workspace' = prerelease_workspace]_vars

\* The tree is built and holds instructions on both branches whose
\* next_version is not the version of their package.
C14_Witness ==
    /\ pc = "done"
    /\ \E id \in 1..Len(nodes) :
         /\ IsSome(nodes[id].stable)
         /\ IsSome(nodes[id].prerelease)
         /\ Unwrap(nodes[id].stable).next_version # version("stable", package_name(id))
         /\ Unwrap(nodes[id].prerelease).next_version
                # version("prerelease", package_name(id))

\* No package is among its own transitive dependents along the given branches.
acyclic(branches) ==
    \A p \in Names : p \notin transitive_dependents(branches, p)

RECURSIVE SetSum(_, _)
SetSum(f, S) ==
    IF S = {} THEN 0
    ELSE LET x == CHOOSE x \in S : TRUE IN f[x] + SetSum(f, S \ {x})

\* The steps new_node takes for a node with these instructions, its
\* descendants included, followed down to a depth.
RECURSIVE work(_, _, _)
work(stable, prerelease, depth) ==
    IF depth = 0 THEN 0
    ELSE 1 + SetSum(
             [c \in unique_children(stable, prerelease) |->
                LET n == derive_child_node(stable, prerelease,
                                           get(stable_workspace, c),
                                           get(prerelease_workspace, c))
                IN 1 + work(n.stable, n.prerelease, depth - 1)],
             unique_children(stable, prerelease))

\* The steps the build still has to take.
remaining ==
    (IF pc = "build" THEN 1 ELSE 0)
    + SetSum([k \in 1..Len(todo_roots) |->
                LET n == root_node_instructions(todo_roots[k], release_channel)
                IN 1 + work(n.stable, n.prerelease, MaxDepth)],
             1..Len(todo_roots))
    + SetSum([k \in 1..Len(stack) |->
                1 + SetSum(
                      [c \in stack[k].unique_children |->
                         LET n == derive_child_node(stack[k].stable, stack[k].prerelease,
                                                    get(stable_workspace, c),
                                                    get(prerelease_workspace, c))
                         IN 1 + work(n.stable, n.prerelease, MaxDepth)],
                      stack[k].unique_children)],
             1..Len(stack))

\* The steps the whole build takes: one per root to enter new_node, the
\* steps of each root's node, and the return.
total_work ==
    1 + SetSum([k \in 1..Len(root_instructions) |->
                  LET n == root_node_instructions(root_instructions[k], release_channel)
                  IN 1 + work(n.stable, n.prerelease, MaxDepth)],
               1..Len(root_instructions))

\* The steps taken so far: entering and creating each node, entering each
\* node under construction, and the return.
steps_taken ==
    2 * Len(nodes) + Len(stack) + (IF pc = "build" THEN 0 ELSE 1)

\* The recursion from a node with these instructions ends within a depth.
RECURSIVE ends_within(_, _, _)
ends_within(stable, prerelease, depth) ==
    /\ depth > 0
    /\ \A c \in unique_children(stable, prerelease) :
         LET n == derive_child_node(stable, prerelease,
                                    get(stable_workspace, c),
                                    get(prerelease_workspace, c))
         IN ends_within(n.stable, n.prerelease, depth - 1)

\* total_work counts every step of the build.
work_is_counted ==
    \A k \in 1..Len(root_instructions) :
        LET n == root_node_instructions(root_instructions[k], release_channel)
        IN ends_within(n.stable, n.prerelease, MaxDepth)

\* The recursion stays within the call stack, and the steps taken and the
\* steps left always add up to the work of the input: the build returns
\* after exactly total_work steps.
runs_to_completion ==
    /\ pc # "overflow"
    /\ (pc \in {"build", "done"} /\ work_is_counted) =>
         steps_taken + remaining = total_work
    /\ (pc = "done" /\ work_is_counted) => steps_taken = total_work

each_acyclic == acyclic({"stable"}) /\ acyclic({"prerelease"})

union_acyclic == acyclic({"stable", "prerelease"})

reached_from(branches, p) == {p} \cup transitive_dependents(branches, p)

\* A cycle of the relation lies among the packages reached from a root.
cycle_reached(branches) ==
    \E r \in roots : \E q \in reached_from(branches, r.package) :
        q \in transitive_dependents(branches, q)

returned == pc \in {"done", "rendered", "panic"}

always_behind(q) ==
    /\ IsSome(get(stable_workspace, q))
    /\ IsSome(get(prerelease_workspace, q))
    /\ VLt(version("prerelease", q),
           [user_bump(version("stable", q), "patch") EXCEPT !.pre = "alpha"])

C16_WitnessPrerelease ==
    /\ pc = "overflow"
    /\ release_channel = "Prerelease"
    /\ cycle_reached({"prerelease"})
    /\ \A k \in 1..Len(stack) : IsSome(stack[k].prerelease)

\* The two candidates of the reconciliation on record, as tables, and the
\* greater of those present.
expected_candidate1 ==
    IF IsSome(call.stable_bump_instruction)
    THEN Some(leapfrog(version("stable", call.name),
                       Unwrap(call.stable_bump_instruction).next_version))
    ELSE None

expected_candidate2 ==
    IF IsSome(call.prerelease_parent_bump_instruction)
    THEN LET parent == Unwrap(call.prerelease_parent_bump_instruction) IN
         Some([derived_stable(
                   expected_bump_type(version("prerelease", parent.package),
                                      parent.next_version),
                   version("stable", call.name)) EXCEPT !.pre = "alpha"])
    ELSE None

expected_final ==
    IF IsSome(expected_candidate1) /\ IsSome(expected_candidate2)
    THEN IF VLt(Unwrap(expected_candidate1), Unwrap(expected_candidate2))
         THEN expected_candidate2
         ELSE expected_candidate1
    ELSE IF IsSome(expected_candidate1) THEN expected_candidate1
    ELSE expected_candidate2

\* C19: candidate 2 is the derived Major bump (parent Major) or patch+1
\* (parent Minor or Patch) of the package's current stable version,
\* labelled; the final candidate is the greater of the two candidates, or
\* the one present; with neither a stable instruction nor a prerelease
\* parent the result is none.
C19_SecondCandidate ==
    (call.fn = "compute" /\ IsSome(call.stable_package) /\ IsSome(call.prerelease_package)) =>
        /\ final_candidate = expected_final
        /\ call.result =
             IF IsSome(expected_final)
                /\ VLt(version("prerelease", call.name), Unwrap(expected_final))
             THEN Some(BumpInstruction("prerelease", call.name, Unwrap(expected_final)))
             ELSE None
        /\ (~IsSome(call.stable_bump_instruction)
              /\ ~IsSome(call.prerelease_parent_bump_instruction)) => call.result = None

\* A Patch stable instruction under a Major prerelease parent: candidate 2
\* (2.0.0-alpha, from stable 1.0.0) is above candidate 1 (1.0.2-alpha) and
\* is returned, the prerelease version being 1.1.0-alpha.
C19_Witness ==
    /\ call.fn = "compute"
    /\ IsSome(call.stable_package)
    /\ version("stable", call.name) = V(1, 0, 0, "")
    /\ IsSome(call.prerelease_package)
    /\ version("prerelease", call.name) = V(1, 1, 0, "alpha")
    /\ expected_candidate1 = Some(V(1, 0, 2, "alpha"))
    /\ expected_candidate2 = Some(V(2, 0, 0, "alpha"))
    /\ call.result = Some(BumpInstruction("prerelease", call.name, V(2, 0, 0, "alpha")))

one_workspace_only(p) ==
    IsSome(get(stable_workspace, p)) # IsSome(get(prerelease_workspace, p))

\* C20: the reconciler returns none whenever the prerelease package or the
\* stable package is absent, whatever instructions it is given; a package of
\* one workspace only never carries a prerelease instruction.
C20_NothingToReconcile ==
    /\ (reconcile_call
          /\ (~IsSome(call.prerelease_package) \/ ~IsSome(call.stable_package))) =>
         call.result = None
    /\ \A p \in Names : one_workspace_only(p) =>
         /\ highest_prerelease[p] = None
         /\ nodes_for("prerelease", p) = {}
         /\ \A k \in 1..Len(stack) :
              IsSome(stack[k].prerelease) => Unwrap(stack[k].prerelease).package # p

\* A child that exists on the prerelease branch only was derived under a
\* prerelease parent instruction and got none.
C20_Witness ==
    /\ call.fn = "derive"
    /\ ~IsSome(call.stable_package)
    /\ IsSome(call.prerelease_package)
    /\ IsSome(call.prerelease_parent_bump_instruction)
    /\ call.result = None

\* A Stable-channel root on a package of the stable workspace only got none.
C20_WitnessStableOnly ==
    /\ call.fn = "root"
    /\ release_channel = "Stable"
    /\ IsSome(call.stable_bump_instruction)
    /\ ~IsSome(call.prerelease_package)
    /\ call.result = None

\* The version make-at-least-stable gives a package, as a table.
at_least_stable(v) ==
    IF v.major = 0 /\ v.minor = 0 THEN V(0, 1, 0, "") ELSE V(v.major, v.minor, v.patch, "")

\* C18: exec maps every version to its label-less version, and to 0.1.0 when
\* that is 0.0.x; a label-less version of at least 0.1.0 is not written;
\* afterwards every package is label-less and at least 0.1.0, and a second
\* exec writes nothing.
C18_MakeAtLeastStable ==
    call.fn = "make_at_least_stable" =>
        /\ \A p \in Names : IsSome(call.before[p]) =>
             LET before == Unwrap(call.before[p])
                 after == version("stable", p)
             IN /\ after = at_least_stable(before)
                /\ p \in call.written <=> after # before
                /\ (before.pre = "" /\ VLe(V(0, 1, 0, ""), before)) => p \notin call.written
                /\ after.pre = ""
                /\ VLe(V(0, 1, 0, ""), after)
        /\ pc = "made_again" =>
             /\ call.written = {}
             /\ stable_workspace.packages = call.before

\* a was 0.0.1-alpha and is now 0.1.0; b was 1.1.0 and was not written.
C18_Witness ==
    /\ pc = "made"
    /\ call.fn = "make_at_least_stable"
    /\ call.before["a"] = Some(V(0, 0, 1, "alpha"))
    /\ version("stable", "a") = V(0, 1, 0, "")
    /\ call.before["b"] = Some(V(1, 1, 0, ""))
    /\ call.written = {"a"}

\* The magnitude of node id of the sequence ns on a side.
magnitude_in(ns, side, id) == Rank(bump_type(Unwrap(ns[id][side])))

\* One step of the build, seen from one map: what new_node's registration
\* does to the entry of each package.
registered(highest, highest_after, side) ==
    \A p \in Names :
        LET id == Len(nodes) + 1
            created == Len(nodes') = id
            present == /\ created
                       /\ IsSome(nodes'[id][side])
                       /\ Unwrap(nodes'[id][side]).package = p
        IN
        /\ ~present => highest_after[p] = highest[p]
        /\ (present /\ ~IsSome(highest[p])) => highest_after[p] = Some(id)
        /\ (present /\ IsSome(highest[p])) =>
             highest_after[p] =
                 IF magnitude_in(nodes', side, id)
                        > magnitude_in(nodes', side, Unwrap(highest[p]))
                 THEN Some(id)
                 ELSE highest[p]
        /\ IsSome(highest[p]) =>
             /\ IsSome(highest_after[p])
             /\ magnitude_in(nodes', side, Unwrap(highest_after[p]))
                    >= magnitude_in(nodes', side, Unwrap(highest[p]))

\* C21: when new_node registers a node, the entry of its package in the map
\* of each side present is inserted when absent, replaced exactly when the
\* new node's magnitude is strictly greater than the recorded one's, and
\* otherwise kept; no step of a build removes an entry or lowers the
\* magnitude recorded for a package.
C21_Registration ==
    [][/\ registered(highest_stable, highest_stable', "stable")
       /\ registered(highest_prerelease, highest_prerelease', "prerelease")]_vars

\* A package was reached twice with the same stable magnitude and the entry
\* still names the first node.
C21_Witness ==
    \E p \in Names : \E first, second \in nodes_for("stable", p) :
        /\ first < second
        /\ magnitude("stable", first) = magnitude("stable", second)
        /\ highest_stable[p] = Some(first)
        /\ \A id \in nodes_for("stable", p) : id <= second

\* The dependents of the package of an instruction in its own workspace.
side_dependents(instruction, workspace) ==
    IF IsSome(instruction) THEN workspace.dependents[Unwrap(instruction).package] ELSE {}

\* The names a node with these two instructions must have a child for.
expected_children(stable, prerelease) ==
    side_dependents(stable, stable_workspace)
        \cup side_dependents(prerelease, prerelease_workspace)

\* The children of node id whose instruction on a side targets package n.
children_named(id, n) ==
    { k \in 1..Len(nodes[id].children) :
        \E side \in {"stable", "prerelease"} :
            LET o == nodes[nodes[id].children[k]][side] IN
            IsSome(o) /\ Unwrap(o).package = n }

\* A child's instructions are on the packages of one name, each looked up
\* in the workspace of its side.
looked_up_by_name(c) ==
    /\ IsSome(nodes[c].stable) =>
         /\ Unwrap(nodes[c].stable).branch = "stable"
         /\ IsSome(get(stable_workspace, Unwrap(nodes[c].stable).package))
    /\ IsSome(nodes[c].prerelease) =>
         /\ Unwrap(nodes[c].prerelease).branch = "prerelease"
         /\ IsSome(get(prerelease_workspace, Unwrap(nodes[c].prerelease).package))
    /\ (IsSome(nodes[c].stable) /\ IsSome(nodes[c].prerelease)) =>
         Unwrap(nodes[c].stable).package = Unwrap(nodes[c].prerelease).package

\* C22: every node built has exactly one child per distinct name among the
\* direct dependents of its stable package (stable instruction present) and
\* of its prerelease package (prerelease instruction present); a name on
\* both sides gives one child, a name on one side gives a child, and the
\* child's instructions are on the packages of that name in the two
\* workspaces.
C22_ChildPerDependent ==
    /\ \A id \in 1..Len(nodes) :
         LET expected == expected_children(nodes[id].stable, nodes[id].prerelease) IN
         /\ Len(nodes[id].children) = Cardinality(expected)
         /\ Cardinality(children_of(id)) = Len(nodes[id].children)
         /\ \A n \in Names :
              Cardinality(children_named(id, n)) <= (IF n \in expected THEN 1 ELSE 0)
         /\ \A c \in children_of(id) : looked_up_by_name(c)
    /\ \A k \in 1..Len(stack) :
         Len(stack[k].children) + Cardinality(stack[k].unique_children)
             + (IF k < Len(stack) THEN 1 ELSE 0)
           = Cardinality(expected_children(stack[k].stable, stack[k].prerelease))

\* A node with both instructions whose package has one dependent on both
\* branches and another on the stable branch only: two children.
C22_Witness ==
    \E id \in 1..Len(nodes) :
        /\ IsSome(nodes[id].stable)
        /\ IsSome(nodes[id].prerelease)
        /\ LET ds == side_dependents(nodes[id].stable, stable_workspace)
               dp == side_dependents(nodes[id].prerelease, prerelease_workspace)
           IN /\ ds \cap dp # {}
              /\ ds \ dp # {}
              /\ Len(nodes[id].children) = 2
              /\ \A n \in ds \cup dp : Cardinality(children_named(id, n)) = 1

\* A requested change is acceptable: no label, and above the version the
\* package had when the command started.
acceptable(entry) ==
    /\ entry.version.pre = ""
    /\ IsSome(bump_command.before.stable[entry.name])
    /\ VLt(Unwrap(bump_command.before.stable[entry.name]), entry.version)

all_acceptable ==
    \A k \in 1..Len(bump_command.package_changes) :
        acceptable(bump_command.package_changes[k])

stable_untouched == stable_workspace.packages = bump_command.before.stable
prerelease_untouched == prerelease_workspace.packages = bump_command.before.prerelease

tree_built ==
    /\ pc \in {"apply_stable", "apply_prerelease", "finished", "error", "panic"}
    /\ stack = << >>
    /\ todo_roots = << >>
    /\ Len(root_nodes) = Len(bump_command.package_changes)

\* C23: stable::exec writes no version unless every requested change is
\* acceptable, the tree is built and dry_run is false; a rejected entry or
\* dry_run leaves both workspaces as they were; every write to the stable
\* workspace comes before every write to the prerelease workspace.
C23_WritesAfterBuild ==
    /\ (~stable_untouched \/ ~prerelease_untouched \/ bump_command.writes # << >>) =>
         /\ all_acceptable
         /\ tree_built
         /\ ~bump_command.dry_run
    /\ (~all_acceptable \/ bump_command.dry_run) =>
         /\ stable_untouched
         /\ prerelease_untouched
         /\ pc \notin {"apply_stable", "apply_prerelease", "finished"}
    /\ \A i, j \in 1..Len(bump_command.writes) :
         (i < j /\ bump_command.writes[i].branch = "prerelease") =>
             bump_command.writes[j].branch = "prerelease"
    /\ ~prerelease_untouched =>
         \A p \in DOMAIN bumped :
             stable_workspace.packages[p] = Some(bumped[p].next_version)

\* The command finished with two packages written on each branch, the
\* stable ones first.
C23_Witness ==
    /\ pc = "finished"
    /\ Len(bump_command.writes) = 4
    /\ bump_command.writes[2].branch = "stable"
    /\ bump_command.writes[3].branch = "prerelease"
    /\ ~stable_untouched
    /\ ~prerelease_untouched

\* A dry run of acceptable changes ended after the tree was printed.
C23_WitnessDryRun ==
    /\ pc = "aborted"
    /\ all_acceptable
    /\ Len(nodes) >= 2
    /\ stable_untouched
    /\ prerelease_untouched

\* C24: after a Stable-channel build the version recorded in highest_stable
\* for the package of every root instruction is at least the version the
\* root instruction asked for.
C24_RootNotSuperseded ==
    (pc = "done" /\ release_channel = "Stable") =>
        \A r \in roots :
            /\ IsSome(highest_stable[r.package])
            /\ VLe(r.next_version, recorded_stable(r.package).next_version)

\* The next_version a map of the finished tree holds for p, as an Option.
recorded_version(highest, side, p) ==
    IF IsSome(highest[p])
    THEN Some(Unwrap(nodes[Unwrap(highest[p])][side]).next_version)
    ELSE None

\* The same for a map of instructions.
version_in(map, p) ==
    IF IsSome(map[p]) THEN Some(Unwrap(map[p]).next_version) ELSE None

\* The maps of the build that is given the same root instructions in the
\* opposite order.
reversed_build == tree_maps(Reverse(root_instructions), release_channel, EmptyMaps)

\* C25: the next_version recorded for every package in highest_stable and in
\* highest_prerelease is the same whatever the order of the root
\* instructions and of each node's dependents: the finished build agrees
\* with the build over the root instructions in the opposite order.
C25_OrderIndependent ==
    pc = "done" =>
        \A p \in Names :
            /\ recorded_version(highest_stable, "stable", p)
                 = version_in(reversed_build.stable, p)
            /\ recorded_version(highest_prerelease, "prerelease", p)
                 = version_in(reversed_build.prerelease, p)

\* C26: when a Prerelease-channel request on a package of both workspaces
\* is skipped, the current prerelease version is at or above the labelled
\* user-initiated bump of the current stable version, and so strictly above
\* the current stable version.
C26_SkippedOnlyWhenAhead ==
    ( /\ request("Prerelease")
      /\ IsSome(get(stable_workspace, call.text.name))
      /\ IsSome(get(prerelease_workspace, call.text.name))
      /\ call.result = Ok(None) ) =>
        LET cur_stable_version == version("stable", call.text.name)
            cur_prerelease_version == version("prerelease", call.text.name)
            candidate == [user_bump(cur_stable_version, Unwrap(call.text.tok))
                              EXCEPT !.pre = "alpha"]
        IN /\ VLe(candidate, cur_prerelease_version)
           /\ VLt(cur_stable_version, cur_prerelease_version)

\* An instruction, if there is one, moves its package forward.
moves_forward(o) ==
    IsSome(o) => VLt(version(Unwrap(o).branch, Unwrap(o).package), Unwrap(o).next_version)

\* C27: every instruction produced by from_str on either channel, by
\* derive_child_node and by compute_prerelease_bump_instruction has a
\* next_version strictly greater than the current version of its package.
C27_NeverBackwards ==
    /\ \A k \in 1..Len(resolved) : moves_forward(resolved[k].result.instr)
    /\ \A k \in 1..Len(root_instructions) : moves_forward(Some(root_instructions[k]))
    /\ \A k \in 1..Len(stack) :
         moves_forward(stack[k].stable) /\ moves_forward(stack[k].prerelease)
    /\ \A id \in 1..Len(nodes) :
         moves_forward(nodes[id].stable) /\ moves_forward(nodes[id].prerelease)
    /\ call.fn \in {"root", "derive", "compute"} =>
         moves_forward(call.stable_bump_instruction) /\ moves_forward(call.result)
    /\ call.fn = "from_str" => moves_forward(call.result.instr)

\* A Stable-channel tree is finished: its root came from from_str and a
\* dependent got a stable instruction from derive_child_node and a
\* prerelease one from the reconciler.
C27_Witness ==
    /\ pc = "done"
    /\ release_channel = "Stable"
    /\ \A k \in 1..Len(resolved) : resolved[k].result.kind = "Some"
    /\ \E id \in 1..Len(nodes) : \E c \in children_of(id) :
         IsSome(nodes[c].stable) /\ IsSome(nodes[c].prerelease)

\* p is the package of a root instruction or depends on one, directly or
\* transitively, in the stable workspace.
stable_reaches(p) ==
    \E r \in roots : p \in reached_from({"stable"}, r.package)

\* C28: in a Stable-channel build a package gets a stable instruction only if
\* it is a root package or a transitive dependent of one in the stable
\* workspace's graph.
C28_StableFollowsStableGraph ==
    release_channel = "Stable" =>
        /\ \A id \in 1..Len(nodes) :
             IsSome(nodes[id].stable) => stable_reaches(Unwrap(nodes[id].stable).package)
        /\ \A k \in 1..Len(stack) :
             IsSome(stack[k].stable) => stable_reaches(Unwrap(stack[k].stable).package)
        /\ \A p \in Names : IsSome(highest_stable[p]) => stable_reaches(p)

\* C29: when make_prerelease::exec returns an error no package version of
\* the workspace has been modified, and when it returns Ok every package
\* version v has become v-alpha.1.
C29_AllOrNothing ==
    /\ pc = "error" => stable_workspace.packages = bump_command.before
    /\ pc = "ok" =>
         \A n \in Names : IsSome(bump_command.before[n]) =>
             LET v == Unwrap(bump_command.before[n]) IN
             /\ v.pre = ""
             /\ version("stable", n) = V(v.major, v.minor, v.patch, "alpha.1")

\* Two Options of an instruction hold the same next_version, or are both none.
same_next_version(x, y) ==
    /\ IsSome(x) <=> IsSome(y)
    /\ IsSome(x) => Unwrap(x).next_version = Unwrap(y).next_version

\* The versions run_bump_tree_assertion may be given as the expected one.
ExpectedVersions == FnVersions

\* C30: instructions that compare equal have the same next_version and nodes
\* that compare equal carry the same next_version on each side, so an
\* assert_eq of a recorded instruction against an expected one passes for
\* the recorded version only.
C30_EqualityPinsVersion ==
    /\ \A x, y \in 1..Len(nodes) :
         BumpNode_eq(nodes[x], nodes[y]) =>
             /\ same_next_version(nodes[x].stable, nodes[y].stable)
             /\ same_next_version(nodes[x].prerelease, nodes[y].prerelease)
    /\ pc = "done" =>
         \A p \in Names : \A v \in ExpectedVersions :
             /\ (IsSome(highest_stable[p])
                   /\ Option_eq(nodes[Unwrap(highest_stable[p])].stable,
                                Some(BumpInstruction("stable", p, v)))) =>
                  v = recorded_stable(p).next_version
             /\ (IsSome(highest_prerelease[p])
                   /\ Option_eq(nodes[Unwrap(highest_prerelease[p])].prerelease,
                                Some(BumpInstruction("prerelease", p, v)))) =>
                  v = recorded_prerelease(p).next_version

====
